---- MODULE Spec2Model ----
(***************************************************************************)
(* Model of src/Scraping/Scraping.py: the WebScraper crawl engine          *)
(* (constructor, ledger load/save, fetch with browser fallback,            *)
(* scrape_page, and the round loop of scrape() over a ThreadPoolExecutor). *)
(*                                                                         *)
(* A URL is a sequence of segments: <<"site">> is the base address         *)
(* "https://site/", <<"site","a">> is "https://site/a", <<"other","x">> is *)
(* a page of another host.  The ledger dictionary scraped_urls maps URL to *)
(* a timestamp; only its key set matters to the crawl, so it is modelled   *)
(* as the set of its keys.                                                 *)
(***************************************************************************)
EXTENDS Integers, Sequences, FiniteSets, TLC

VARIABLES
    phase,          \* position of the process: see Phases
    runs,           \* number of processes started so far
    fileState,      \* the ledger file url_file: "missing", "json" or "invalid"
    fileKeys,       \* keys of the JSON object in the file when fileState = "json"
    pageStore,      \* URLs whose page file save_page has written
    scraped_urls,   \* self.scraped_urls (key set)
    visited_urls,   \* self.visited_urls
    driver,         \* self.driver is not None
    liveDrivers,    \* browser drivers created by this process and not quit
    urls_to_scrape, \* the frontier of scrape()
    task,           \* one record per scrape_page call of the current round
    rounds,         \* rounds completed by the current run
    invoked,        \* history: number of scrape_page invocations per URL, this run
    fetchStarted,   \* history: URLs whose get_page_content started, this run
    fetched,        \* history: URLs whose get_page_content returned content
    failedRun,      \* history: URLs whose fetch returned no content, this run
    failedPrev,     \* history: failedRun of the previous run
    prevEnd,        \* history: phase in which the previous process ended
    ledgerAtStart,  \* history: scraped_urls as loaded by the constructor
    storeAtStart,   \* history: pageStore when the constructor ran
    durable,        \* history: URLs whose save_scraped_urls() call has returned
    site,           \* which web site is being crawled: see Hrefs
    row_content,    \* prepare_for_rag: row['content'] of the row being chunked
    chunk_size,     \* prepare_for_rag: the chunk_size argument
    sentences,      \* prepare_for_rag: the result of re.split
    consumed,       \* prepare_for_rag: number of sentences the loop has taken
    current_chunk,  \* prepare_for_rag: current_chunk
    chunks,         \* prepare_for_rag: chunks
    rag_data,       \* prepare_for_rag: the records appended for this row
    cpc             \* prepare_for_rag: "idle", "loop", "flush", "emit" or "done"

chunkVars == <<row_content, chunk_size, sentences, consumed, current_chunk,
               chunks, rag_data, cpc>>

crawlVars == <<phase, runs, fileState, fileKeys, pageStore, scraped_urls,
               visited_urls, driver, liveDrivers, urls_to_scrape, task,
               rounds, invoked, fetchStarted, fetched, failedRun, failedPrev,
               prevEnd, ledgerAtStart, storeAtStart, durable, site>>

vars == <<crawlVars, chunkVars>>

----------------------------------------------------------------------------
(* Bounds *)

MaxRuns == 2

(* Program constants *)

max_workers == 5

----------------------------------------------------------------------------
(* The web site being crawled (the environment of the program) *)

base_url == <<"site">>
UrlA == <<"site", "a">>
UrlB == <<"site", "b">>
UrlC == <<"site", "c">>
UrlD == <<"site", "sub", "d">>
UrlSubC == <<"site", "sub", "c">>
UrlX == <<"other", "x">>

Urls == {base_url, UrlA, UrlB, UrlC, UrlD, UrlX}

Abs(u) == [abs |-> TRUE, path |-> u]
Rel(p) == [abs |-> FALSE, path |-> p]

\* the href attributes of the anchors of each page, in document order, for
\* each of the sites: site 1 has relative links and two pages that link to
\* the same page, site 2 has a repeated link, a self link and cycles, site 3
\* is a cycle with a page linked from two pages of different rounds
Hrefs(u) ==
    IF site = 1 THEN
        IF u = base_url THEN <<Abs(UrlA), Abs(UrlB), Rel(<<"c">>), Abs(UrlX)>>
        ELSE IF u = UrlA THEN <<Abs(UrlC), Abs(UrlD)>>
        ELSE IF u = UrlB THEN <<Rel(<<"sub", "d">>)>>
        ELSE IF u = UrlD THEN <<Rel(<<"c">>)>>
        ELSE <<>>
    ELSE IF site = 2 THEN
        IF u = base_url THEN <<Abs(UrlA), Abs(UrlA), Abs(base_url)>>
        ELSE IF u = UrlA THEN <<Abs(base_url), Abs(UrlA), Abs(UrlB)>>
        ELSE IF u = UrlB THEN <<Abs(UrlA), Abs(UrlX)>>
        ELSE <<>>
    ELSE IF site = 3 THEN
        IF u = base_url THEN <<Abs(UrlB), Abs(UrlC)>>
        ELSE IF u = UrlB THEN <<Abs(UrlC)>>
        ELSE IF u = UrlC THEN <<Abs(base_url), Abs(UrlB)>>
        ELSE <<>>
    ELSE <<>>

Sites == {1, 2, 3}

----------------------------------------------------------------------------
(* Pure helpers *)

\* the directory of a URL: "https://site/" for "https://site/" and for
\* "https://site/a", "https://site/sub/" for "https://site/sub/d"
Dir(u) == IF Len(u) <= 1 THEN u ELSE SubSeq(u, 1, Len(u) - 1)

\* urllib.parse.urljoin(base, href): an absolute href replaces the base, a
\* relative one is appended to the directory of the base
urljoin(b, href) == IF href.abs THEN href.path ELSE Dir(b) \o href.path

\* str.startswith
startswith(u, prefix) ==
    /\ Len(u) >= Len(prefix)
    /\ SubSeq(u, 1, Len(prefix)) = prefix

Range(s) == {s[i] : i \in DOMAIN s}

RECURSIVE Flatten(_)
\* [url for sublist in new_urls for url in sublist]
Flatten(ss) == IF ss = <<>> THEN <<>> ELSE Head(ss) \o Flatten(Tail(ss))

----------------------------------------------------------------------------
(* Decisions of the code, one operator per test *)

\* load_scraped_urls: json.load of the file; only FileNotFoundError is caught
load_scraped_urls ==
    IF fileState = "missing" THEN [raised |-> FALSE, value |-> {}]
    ELSE IF fileState = "json" THEN [raised |-> FALSE, value |-> fileKeys]
    ELSE [raised |-> TRUE, value |-> {}]

\* variant: the ledger test is skipped
AlreadyScraped_Never(url) == FALSE

\* scrape_page: `if url in self.scraped_urls`
AlreadyScraped(url) == url \in scraped_urls

\* variant: the result of the fetch is not tested
HasContent_Always(content) == TRUE

\* scrape_page: `if not content` is false
HasContent(content) == content = "ok"

\* scrape_page: the test of one resolved link in the loop over the anchors
IsNewUrl(new_url) ==
    /\ startswith(new_url, base_url)
    /\ new_url \notin visited_urls

\* variant: the results are read only up to the first call that returned
\* nothing
RECURSIVE UpToEmpty(_)
UpToEmpty(ss) ==
    IF ss = <<>> \/ Head(ss) = <<>> THEN <<>>
    ELSE Head(ss) \o UpToEmpty(Tail(ss))

NextFrontier_UpToEmpty(new_urls) ==
    SelectSeq(UpToEmpty(new_urls), LAMBDA url : url \notin scraped_urls)

\* variant: the results are added to the frontier instead of replacing it
NextFrontier_Extend(new_urls) ==
    SelectSeq(urls_to_scrape \o Flatten(new_urls),
              LAMBDA url : url \notin scraped_urls)

\* scrape: the frontier computed from the results of a round
NextFrontier(new_urls) ==
    SelectSeq(Flatten(new_urls), LAMBDA url : url \notin scraped_urls)

----------------------------------------------------------------------------
(* Tasks: the scrape_page calls submitted by executor.map for one round *)

Phases == {"idle", "constructed", "running", "aborting", "returned",
           "failed", "crashed", "initfailed"}

Pcs == {"queued", "mark", "fetch", "sel_check", "sel_create", "sel_get",
        "save_page", "record", "open", "dump", "close", "links",
        "done", "raised", "cancelled"}

NewTask(url) ==
    [url |-> url, pc |-> "queued", content |-> "unset", buf |-> {},
     raced |-> FALSE, i |-> 0, new_urls |-> <<>>]

\* executor.map(self.scrape_page, urls_to_scrape): one future per element
Submit(urls) == [t \in 1..Len(urls) |-> NewTask(urls[t])]

Tasks == DOMAIN task

Running(t) == task[t].pc \notin {"queued", "done", "raised", "cancelled"}

\* a task holds an open handle on the ledger file
Writing(t) == task[t].pc \in {"dump", "close"}

\* a task is inside `self.scraped_urls[url] = ...; self.save_scraped_urls()`
InRecord(t) == task[t].pc \in {"open", "dump", "close"}

Finished(r, pc) ==
    [r EXCEPT !.pc = pc, !.buf = {}, !.raced = FALSE, !.i = 0]

WorkersAlive == phase \in {"running", "aborting"}

ZeroCount == [u \in Urls |-> 0]

----------------------------------------------------------------------------
(* Initial state: no process, no ledger file, empty page store *)

CrawlInit ==
    /\ phase = "idle"
    /\ runs = 0
    /\ fileState = "missing"
    /\ fileKeys = {}
    /\ pageStore = {}
    /\ scraped_urls = {}
    /\ visited_urls = {}
    /\ driver = FALSE
    /\ liveDrivers = 0
    /\ urls_to_scrape = <<>>
    /\ task = <<>>
    /\ rounds = 0
    /\ invoked = ZeroCount
    /\ fetchStarted = {}
    /\ fetched = {}
    /\ failedRun = {}
    /\ failedPrev = {}
    /\ prevEnd = "idle"
    /\ ledgerAtStart = {}
    /\ storeAtStart = {}
    /\ durable = {}

\* prepare_for_rag has not been called
ChunkIdle ==
    /\ row_content = <<>>
    /\ chunk_size = 0
    /\ sentences = <<>>
    /\ consumed = 0
    /\ current_chunk = <<>>
    /\ chunks = <<>>
    /\ rag_data = <<>>
    /\ cpc = "idle"

Init == CrawlInit /\ site = 1 /\ ChunkIdle

runHist == <<failedPrev, prevEnd, ledgerAtStart, storeAtStart>>
fetchHist == <<fetchStarted, fetched, failedRun>>
fileVars == <<fileState, fileKeys>>
mainVars == <<phase, runs, urls_to_scrape, rounds>>
envVars == <<site, chunkVars>>

----------------------------------------------------------------------------
(* The main thread *)

\* a new process: WebScraper.__init__
Construct ==
    /\ phase \in {"idle", "returned", "failed", "crashed", "initfailed"}
    /\ runs < MaxRuns
    /\ runs' = runs + 1
    /\ phase' = IF load_scraped_urls.raised THEN "initfailed" ELSE "constructed"
    /\ scraped_urls' = load_scraped_urls.value
    /\ visited_urls' = {}
    /\ driver' = FALSE
    /\ liveDrivers' = 0
    /\ urls_to_scrape' = <<>>
    /\ task' = <<>>
    /\ rounds' = 0
    /\ invoked' = ZeroCount
    /\ fetchStarted' = {}
    /\ failedRun' = {}
    /\ failedPrev' = failedRun
    /\ prevEnd' = phase
    /\ ledgerAtStart' = load_scraped_urls.value
    /\ storeAtStart' = pageStore
    /\ UNCHANGED <<envVars, fileVars, pageStore, fetched, durable>>

\* scrape(): urls_to_scrape = [self.base_url], first executor.map
ScrapeBegin ==
    /\ phase = "constructed"
    /\ phase' = "running"
    /\ urls_to_scrape' = <<base_url>>
    /\ task' = Submit(<<base_url>>)
    /\ UNCHANGED <<envVars, runs, rounds, fileVars, pageStore, scraped_urls,
                   visited_urls, driver, liveDrivers, invoked, fetchHist,
                   runHist, durable>>

\* variant: the results are taken as soon as one call has returned
RoundComplete_Any == \E t \in Tasks : task[t].pc = "done"

\* list(executor.map(...)) has the result of every call of the round
RoundComplete == \A t \in Tasks : task[t].pc = "done"

\* list(executor.map(...)) has every result; the next frontier is computed and,
\* when it is not empty, submitted as the next round
Merge ==
    /\ phase = "running"
    /\ Tasks # {}
    /\ RoundComplete
    /\ urls_to_scrape' = NextFrontier([t \in Tasks |-> task[t].new_urls])
    /\ task' = Submit(urls_to_scrape')
    /\ rounds' = rounds + 1
    /\ UNCHANGED <<envVars, phase, runs, fileVars, pageStore, scraped_urls,
                   visited_urls, driver, liveDrivers, invoked, fetchHist,
                   runHist, durable>>

\* the result iterator reaches a future that raised: the exception leaves
\* list(...), the futures not yet started are cancelled, and the `with` block
\* waits for the running ones
Abort ==
    /\ phase = "running"
    /\ \E t \in Tasks :
        /\ task[t].pc = "raised"
        /\ \A j \in 1..(t - 1) : task[j].pc = "done"
    /\ phase' = "aborting"
    /\ task' = [t \in Tasks |->
                  IF task[t].pc = "queued" THEN Finished(task[t], "cancelled")
                  ELSE task[t]]
    /\ UNCHANGED <<envVars, runs, urls_to_scrape, rounds, fileVars, pageStore,
                   scraped_urls, visited_urls, driver, liveDrivers, invoked,
                   fetchHist, runHist, durable>>

\* executor shutdown done: the exception propagates out of scrape()
AbortDone ==
    /\ phase = "aborting"
    /\ \A t \in Tasks : ~Running(t)
    /\ phase' = "failed"
    /\ UNCHANGED <<envVars, runs, urls_to_scrape, rounds, task, fileVars, pageStore,
                   scraped_urls, visited_urls, driver, liveDrivers, invoked,
                   fetchHist, runHist, durable>>

\* the frontier is empty: `if self.driver: self.driver.quit()`, scrape returns
Finish ==
    /\ phase = "running"
    /\ urls_to_scrape = <<>>
    /\ phase' = "returned"
    /\ liveDrivers' = IF driver THEN liveDrivers - 1 ELSE liveDrivers
    /\ UNCHANGED <<envVars, runs, urls_to_scrape, rounds, task, fileVars, pageStore,
                   scraped_urls, visited_urls, driver, invoked, fetchHist,
                   runHist, durable>>

\* the process is killed: everything in memory is gone, the files stay as
\* they are on disk
Crash ==
    /\ phase \in {"constructed", "running", "aborting"}
    /\ phase' = "crashed"
    /\ urls_to_scrape' = <<>>
    /\ task' = <<>>
    /\ scraped_urls' = {}
    /\ visited_urls' = {}
    /\ driver' = FALSE
    /\ liveDrivers' = 0
    /\ UNCHANGED <<envVars, runs, rounds, fileVars, pageStore, invoked, fetchHist,
                   runHist, durable>>

----------------------------------------------------------------------------
(* The worker threads: scrape_page(url), one action per step *)

Set(t, r) == task' = [task EXCEPT ![t] = r]

\* a pool thread takes the oldest queued call; scrape_page up to the ledger test
Start(t) ==
    /\ phase = "running"
    /\ task[t].pc = "queued"
    /\ \A j \in 1..(t - 1) : task[j].pc # "queued"
    /\ Cardinality({j \in Tasks : Running(j)}) < max_workers
    /\ invoked' = [invoked EXCEPT ![task[t].url] = @ + 1]
    /\ IF AlreadyScraped(task[t].url)
         THEN Set(t, Finished(task[t], "done"))
         ELSE Set(t, [task[t] EXCEPT !.pc = "mark"])
    /\ UNCHANGED <<envVars, mainVars, fileVars, pageStore, scraped_urls, visited_urls,
                   driver, liveDrivers, fetchHist, runHist,
                   durable>>

\* self.visited_urls.add(url)
MarkVisited(t) ==
    /\ WorkersAlive
    /\ task[t].pc = "mark"
    /\ visited_urls' = visited_urls \cup {task[t].url}
    /\ Set(t, [task[t] EXCEPT !.pc = "fetch"])
    /\ UNCHANGED <<envVars, mainVars, fileVars, pageStore, scraped_urls, driver,
                   liveDrivers, invoked, fetchHist, runHist,
                   durable>>

\* where scrape_page goes with the value get_page_content returned
AfterFetch(r, content) ==
    IF HasContent(content)
      THEN [r EXCEPT !.pc = "save_page", !.content = content]
      ELSE Finished([r EXCEPT !.content = content], "done")

\* get_page_content: the HTTP request succeeds, or raises RequestException
\* and the browser fallback is entered
GetPageContent(t) ==
    /\ WorkersAlive
    /\ task[t].pc = "fetch"
    /\ fetchStarted' = fetchStarted \cup {task[t].url}
    /\ \E ok \in BOOLEAN :
         IF ok THEN /\ Set(t, AfterFetch(task[t], "ok"))
                    /\ fetched' = fetched \cup {task[t].url}
               ELSE /\ Set(t, [task[t] EXCEPT !.pc = "sel_check"])
                    /\ UNCHANGED fetched
    /\ UNCHANGED <<envVars, mainVars, fileVars, pageStore, scraped_urls, visited_urls,
                   driver, liveDrivers, invoked, failedRun, runHist, durable>>

\* get_page_content_selenium: `if not self.driver`
SeleniumCheckDriver(t) ==
    /\ WorkersAlive
    /\ task[t].pc = "sel_check"
    /\ Set(t, [task[t] EXCEPT !.pc = IF driver THEN "sel_get" ELSE "sel_create"])
    /\ UNCHANGED <<envVars, mainVars, fileVars, pageStore, scraped_urls, visited_urls,
                   driver, liveDrivers, invoked, fetchHist,
                   runHist, durable>>

\* self.driver = webdriver.Chrome(...): outside the try block, so a failure to
\* start the browser leaves scrape_page as an exception
SeleniumCreateDriver(t) ==
    /\ WorkersAlive
    /\ task[t].pc = "sel_create"
    /\ \E ok \in BOOLEAN :
         IF ok THEN /\ driver' = TRUE
                    /\ liveDrivers' = liveDrivers + 1
                    /\ Set(t, [task[t] EXCEPT !.pc = "sel_get"])
               ELSE /\ Set(t, Finished(task[t], "raised"))
                    /\ UNCHANGED <<driver, liveDrivers>>
    /\ UNCHANGED <<envVars, mainVars, fileVars, pageStore, scraped_urls, visited_urls,
                   invoked, fetchHist,
                   runHist, durable>>

\* driver.get, the wait for <body>, page_source, taken as one step of the
\* shared driver; any exception gives None
SeleniumGet(t) ==
    /\ WorkersAlive
    /\ task[t].pc = "sel_get"
    /\ \E ok \in BOOLEAN :
         IF ok THEN /\ Set(t, AfterFetch(task[t], "ok"))
                    /\ fetched' = fetched \cup {task[t].url}
                    /\ UNCHANGED failedRun
               ELSE /\ Set(t, AfterFetch(task[t], "none"))
                    /\ failedRun' = failedRun \cup {task[t].url}
                    /\ UNCHANGED fetched
    /\ UNCHANGED <<envVars, mainVars, fileVars, pageStore, scraped_urls, visited_urls,
                   driver, liveDrivers, invoked, fetchStarted, runHist,
                   durable>>

\* save_page(url, content): the page file is written, or the write raises
SavePage(t) ==
    /\ WorkersAlive
    /\ task[t].pc = "save_page"
    /\ \E ok \in BOOLEAN :
         IF ok THEN /\ pageStore' = pageStore \cup {task[t].url}
                    /\ Set(t, [task[t] EXCEPT !.pc = "record"])
               ELSE /\ Set(t, Finished(task[t], "raised"))
                    /\ UNCHANGED pageStore
    /\ UNCHANGED <<envVars, mainVars, fileVars, scraped_urls, visited_urls, driver,
                   liveDrivers, invoked, fetchHist, runHist,
                   durable>>

\* self.scraped_urls[url] = current_time
RecordUrl(t) ==
    /\ WorkersAlive
    /\ task[t].pc = "record"
    /\ scraped_urls' = scraped_urls \cup {task[t].url}
    /\ Set(t, [task[t] EXCEPT !.pc = "open"])
    /\ UNCHANGED <<envVars, mainVars, fileVars, pageStore, visited_urls, driver,
                   liveDrivers, invoked, fetchHist, runHist,
                   durable>>

\* save_scraped_urls: open(self.url_file, 'w') truncates the file; an empty
\* file is not valid JSON.  Handles open at the same time write over each other.
SaveOpen(t) ==
    /\ WorkersAlive
    /\ task[t].pc = "open"
    /\ fileState' = "invalid"
    /\ fileKeys' = {}
    /\ task' = [j \in Tasks |->
                  IF j = t THEN [task[t] EXCEPT !.pc = "dump",
                                   !.raced = \E k \in Tasks : Writing(k)]
                  ELSE IF Writing(j) THEN [task[j] EXCEPT !.raced = TRUE]
                  ELSE task[j]]
    /\ UNCHANGED <<envVars, mainVars, pageStore, scraped_urls, visited_urls, driver,
                   liveDrivers, invoked, fetchHist, runHist,
                   durable>>

\* json.dump starts to iterate over the dictionary
SaveDump(t) ==
    /\ WorkersAlive
    /\ task[t].pc = "dump"
    /\ Set(t, [task[t] EXCEPT !.pc = "close", !.buf = scraped_urls])
    /\ UNCHANGED <<envVars, mainVars, fileVars, pageStore, scraped_urls, visited_urls,
                   driver, liveDrivers, invoked, fetchHist,
                   runHist, durable>>

\* where scrape_page is after i - 1 iterations of `for link in links`
AfterLinks(r, i) ==
    IF i > Len(Hrefs(r.url)) THEN Finished(r, "done")
    ELSE [r EXCEPT !.pc = "links", !.i = i]

\* json.dump ends and the file is closed.  An insertion into the dictionary
\* during the iteration raises RuntimeError and leaves a partial file; a
\* handle that overlapped another leaves its own text or a mixture.
SaveClose(t) ==
    /\ WorkersAlive
    /\ task[t].pc = "close"
    /\ IF task[t].buf # scraped_urls
         THEN /\ Set(t, Finished(task[t], "raised"))
              /\ fileState' = "invalid"
              /\ fileKeys' = {}
              /\ UNCHANGED durable
         ELSE /\ Set(t, AfterLinks([task[t] EXCEPT !.buf = {},
                                                  !.raced = FALSE], 1))
              /\ durable' = durable \cup {task[t].url}
              /\ \E good \in (IF task[t].raced THEN BOOLEAN ELSE {TRUE}) :
                   IF good THEN fileState' = "json" /\ fileKeys' = task[t].buf
                           ELSE fileState' = "invalid" /\ fileKeys' = {}
    /\ UNCHANGED <<envVars, mainVars, pageStore, scraped_urls, visited_urls, driver,
                   liveDrivers, invoked, fetchHist, runHist>>

\* one iteration of `for link in links`; after the last one, return new_urls
ExtractLink(t) ==
    /\ WorkersAlive
    /\ task[t].pc = "links"
    /\ LET i == task[t].i
           new_url == urljoin(base_url, Hrefs(task[t].url)[i])
       IN Set(t, AfterLinks([task[t] EXCEPT !.new_urls =
                                IF IsNewUrl(new_url) THEN Append(@, new_url)
                                ELSE @],
                            i + 1))
    /\ UNCHANGED <<envVars, mainVars, fileVars, pageStore, scraped_urls, visited_urls,
                   driver, liveDrivers, invoked, fetchHist,
                   runHist, durable>>

----------------------------------------------------------------------------

Next ==
    \/ Construct
    \/ ScrapeBegin
    \/ Merge
    \/ Abort
    \/ AbortDone
    \/ Finish
    \/ Crash
    \/ \E t \in Tasks : Start(t)
    \/ \E t \in Tasks : MarkVisited(t)
    \/ \E t \in Tasks : GetPageContent(t)
    \/ \E t \in Tasks : SeleniumCheckDriver(t)
    \/ \E t \in Tasks : SeleniumCreateDriver(t)
    \/ \E t \in Tasks : SeleniumGet(t)
    \/ \E t \in Tasks : SavePage(t)
    \/ \E t \in Tasks : RecordUrl(t)
    \/ \E t \in Tasks : SaveOpen(t)
    \/ \E t \in Tasks : SaveDump(t)
    \/ \E t \in Tasks : SaveClose(t)
    \/ \E t \in Tasks : ExtractLink(t)

Spec == Init /\ [][Next]_vars

\* the steps of scrape() and of its workers (not the start of a new process,
\* not the kill of the process)
Progress ==
    \/ ScrapeBegin
    \/ Merge
    \/ Abort
    \/ AbortDone
    \/ Finish
    \/ \E t \in Tasks : Start(t)
    \/ \E t \in Tasks : MarkVisited(t)
    \/ \E t \in Tasks : GetPageContent(t)
    \/ \E t \in Tasks : SeleniumCheckDriver(t)
    \/ \E t \in Tasks : SeleniumCreateDriver(t)
    \/ \E t \in Tasks : SeleniumGet(t)
    \/ \E t \in Tasks : SavePage(t)
    \/ \E t \in Tasks : RecordUrl(t)
    \/ \E t \in Tasks : SaveOpen(t)
    \/ \E t \in Tasks : SaveDump(t)
    \/ \E t \in Tasks : SaveClose(t)
    \/ \E t \in Tasks : ExtractLink(t)

\* the sites with absolute links only
InitFair == CrawlInit /\ site \in {2, 3} /\ ChunkIdle

\* every call returns or raises in finite time and the pool and the main
\* thread keep running
FairSpec == InitFair /\ [][Next]_vars /\ WF_vars(Progress)

TypeOK ==
    /\ phase \in Phases
    /\ runs \in 0..MaxRuns
    /\ fileState \in {"missing", "json", "invalid"}
    /\ fileKeys \subseteq Urls
    /\ pageStore \subseteq Urls
    /\ scraped_urls \subseteq Urls
    /\ visited_urls \subseteq Urls
    /\ driver \in BOOLEAN
    /\ liveDrivers \in Nat
    /\ \A t \in Tasks : task[t].pc \in Pcs /\ task[t].url = urls_to_scrape[t]

----------------------------------------------------------------------------
(* prepare_for_rag: the chunker, one action per step of the loop over the
   rows.  A text is a sequence of characters. *)

MaxText == 7
MaxChunk == 3

Chars == {"a", ".", " "}
Whitespace == {" "}
Enders == {".", "!", "?"}

\* what extract_main_content returns: whitespace runs collapsed to one space,
\* no whitespace at either end, not empty
Normalized(s) ==
    /\ s # <<>>
    /\ s[1] \notin Whitespace
    /\ s[Len(s)] \notin Whitespace
    /\ \A i \in 1..(Len(s) - 1) :
          ~(s[i] \in Whitespace /\ s[i + 1] \in Whitespace)

Texts == {s \in UNION {[1..n -> Chars] : n \in 1..MaxText} : Normalized(s)}

\* the positions where r'(?<=[.!?])\s+' starts to match
SplitPoints(s) ==
    {i \in 2..Len(s) : s[i] \in Whitespace /\ s[i - 1] \in Enders}

\* the last position of the whitespace run that starts at position i
RECURSIVE RunEnd(_, _)
RunEnd(s, i) ==
    IF i < Len(s) /\ s[i + 1] \in Whitespace THEN RunEnd(s, i + 1) ELSE i

Min(S) == CHOOSE x \in S : \A y \in S : x <= y

\* re.split(r'(?<=[.!?])\s+', s): the pieces between the matches, in order
RECURSIVE Split(_)
Split(s) ==
    IF SplitPoints(s) = {} THEN <<s>>
    ELSE LET i == Min(SplitPoints(s))
         IN <<SubSeq(s, 1, i - 1)>>
                \o Split(SubSeq(s, RunEnd(s, i) + 1, Len(s)))

RECURSIVE lstrip(_)
lstrip(s) ==
    IF s # <<>> /\ Head(s) \in Whitespace THEN lstrip(Tail(s)) ELSE s

RECURSIVE rstrip(_)
rstrip(s) ==
    IF s # <<>> /\ s[Len(s)] \in Whitespace
      THEN rstrip(SubSeq(s, 1, Len(s) - 1))
      ELSE s

\* variant: the chunk is kept as accumulated
strip_Nothing(s) == s

\* str.strip()
strip(s) == lstrip(rstrip(s))

\* the test of the loop: the sentence does not fit and the chunk is not empty
ChunkFull(sentence) ==
    Len(current_chunk) + Len(sentence) > chunk_size /\ current_chunk # <<>>

\* rows of the cleaned-data file: one row, any normalized text, any chunk_size
InitChunk ==
    /\ CrawlInit
    /\ site = 1
    /\ row_content \in Texts
    /\ chunk_size \in 1..MaxChunk
    /\ sentences = <<>>
    /\ consumed = 0
    /\ current_chunk = <<>>
    /\ chunks = <<>>
    /\ rag_data = <<>>
    /\ cpc = "row"

\* content = row['content']; chunks = []; current_chunk = ""; re.split
SplitSentences ==
    /\ cpc = "row"
    /\ sentences' = Split(row_content)
    /\ chunks' = <<>>
    /\ current_chunk' = <<>>
    /\ consumed' = 0
    /\ cpc' = "loop"
    /\ UNCHANGED <<crawlVars, row_content, chunk_size, rag_data>>

\* one iteration of `for sentence in sentences`
TakeSentence ==
    /\ cpc = "loop"
    /\ consumed < Len(sentences)
    /\ LET sentence == sentences[consumed + 1]
       IN IF ChunkFull(sentence)
            THEN /\ chunks' = Append(chunks, strip(current_chunk))
                 /\ current_chunk' = sentence
            ELSE /\ current_chunk' = current_chunk \o <<" ">> \o sentence
                 /\ UNCHANGED chunks
    /\ consumed' = consumed + 1
    /\ UNCHANGED <<crawlVars, row_content, chunk_size, sentences, rag_data, cpc>>

\* after the loop: `if current_chunk: chunks.append(current_chunk.strip())`
FlushLast ==
    /\ cpc = "loop"
    /\ consumed = Len(sentences)
    /\ chunks' = IF current_chunk # <<>>
                   THEN Append(chunks, strip(current_chunk))
                   ELSE chunks
    /\ cpc' = "emit"
    /\ UNCHANGED <<crawlVars, row_content, chunk_size, sentences, consumed,
                   current_chunk, rag_data>>

\* for chunk_num, chunk in enumerate(chunks): rag_data.append({...})
EmitRecords ==
    /\ cpc = "emit"
    /\ rag_data' = rag_data \o
           [n \in 1..Len(chunks) |->
               [file |-> "row", chunk_id |-> n - 1, chunk |-> chunks[n]]]
    /\ cpc' = "done"
    /\ UNCHANGED <<crawlVars, row_content, chunk_size, sentences, consumed,
                   current_chunk, chunks>>

NextChunk ==
    \/ SplitSentences
    \/ TakeSentence
    \/ FlushLast
    \/ EmitRecords

SpecChunk == InitChunk /\ [][NextChunk]_vars

----------------------------------------------------------------------------
(* Claims *)

LedgerOnDisk == IF fileState = "json" THEN fileKeys ELSE {}

\* task t leaves the state "about to fetch": get_page_content(url) starts
FetchStarts(t) ==
    /\ task[t].pc = "fetch"
    /\ t \in DOMAIN task'
    /\ task'[t].pc \in {"save_page", "sel_check"}

\* the fetch of task t fails on both paths: get_page_content returns None
FetchFails(t) ==
    /\ task[t].pc = "sel_get"
    /\ t \in DOMAIN task'
    /\ task'[t].content = "none"

\* the main thread computes the next frontier
RoundMerges == rounds' = rounds + 1

\* C1: within one run, scrape_page is invoked at most once per URL.
C1_InvokedAtMostOnce == \A u \in Urls : invoked[u] <= 1

\* C2: a run started after a run that returned, on a ledger that holds the
\* seed, starts no fetch, stores no page, adds no ledger entry, raises
\* nothing, and its first round leaves an empty frontier.
C2_SecondRunDoesNothing ==
    ( /\ runs >= 2
      /\ prevEnd = "returned"
      /\ base_url \in ledgerAtStart
      /\ phase \in {"constructed", "running", "aborting", "returned",
                    "failed"} )
    => /\ fetchStarted = {}
       /\ pageStore = storeAtStart
       /\ scraped_urls = ledgerAtStart
       /\ LedgerOnDisk = ledgerAtStart
       /\ phase \notin {"aborting", "failed"}
       /\ rounds <= 1
       /\ rounds = 1 => urls_to_scrape = <<>>
       /\ phase = "returned" => rounds = 1

C2_Witness ==
    /\ runs = 2
    /\ prevEnd = "returned"
    /\ base_url \in ledgerAtStart
    /\ phase = "returned"
    /\ rounds = 1
    /\ invoked[base_url] = 1

\* C3: once a URL has a ledger entry, no fetch of it starts and it is not
\* placed in a later frontier.
C3_NoFetchOnceRecorded ==
    [][ /\ \A t \in Tasks : FetchStarts(t) => task[t].url \notin scraped_urls
        /\ RoundMerges =>
             \A i \in DOMAIN urls_to_scrape' :
                 urls_to_scrape'[i] \notin scraped_urls ]_vars

\* C4 as stated: a failed fetch raises nothing and contributes no links, it
\* stops no other call of the round, and every link the other calls of the
\* round returned is in the next frontier.
C4_AllLinksMerged ==
    [][ /\ \A t \in Tasks : task[t].content = "none"
               => task[t].pc = "done" /\ task[t].new_urls = <<>>
        /\ \A t \in Tasks : FetchFails(t)
               => /\ phase' = phase
                  /\ \A j \in Tasks \ {t} : task'[j] = task[j]
        /\ (RoundMerges /\ \E b \in Tasks : task[b].content = "none")
               => \A t \in Tasks :
                     /\ task[t].pc = "done"
                     /\ Range(task[t].new_urls) \subseteq
                            Range(urls_to_scrape') ]_vars

\* C4 as amended: a failed fetch raises nothing and contributes no links, it
\* changes no other call of the round and never ends the round (only a call
\* that raised does), and when the round completes every link the other
\* calls returned that has no ledger entry is in the next frontier.
C4_FailureIsolated ==
    [][ /\ \A t \in Tasks : task[t].content = "none"
               => task[t].pc = "done" /\ task[t].new_urls = <<>>
        /\ \A t \in Tasks : FetchFails(t)
               => /\ phase' = phase
                  /\ task'[t].pc = "done" /\ task'[t].new_urls = <<>>
                  /\ \A j \in Tasks \ {t} : task'[j] = task[j]
        /\ (phase = "running" /\ phase' = "aborting")
               => \E t \in Tasks : task[t].pc = "raised"
        /\ (RoundMerges /\ \E b \in Tasks : task[b].content = "none")
               => \A t \in Tasks :
                     /\ task[t].pc = "done"
                     /\ Range(task[t].new_urls) \ scraped_urls \subseteq
                            Range(urls_to_scrape') ]_vars

\* the fetch of b failed in round 2, a was processed to completion in the
\* same round, and the link a found (d) is in the frontier of round 3
C4_Witness ==
    /\ rounds = 2
    /\ UrlB \in failedRun
    /\ UrlB \notin scraped_urls
    /\ UrlA \in scraped_urls
    /\ UrlD \in Range(urls_to_scrape)

\* C5: a URL whose fetch failed in a run that returned, and which has no
\* ledger entry, is dispatched and fetched in the next run.
C5_FailedRetriedNextRun ==
    (runs >= 2 /\ prevEnd = "returned" /\ phase = "returned")
    => \A u \in failedPrev \ ledgerAtStart :
           invoked[u] >= 1 /\ u \in fetchStarted

\* C6: every URL in the ledger (in memory and on disk) is one whose fetch
\* returned content and whose page is in the page store; a call whose fetch
\* returned nothing never stores a page or makes a ledger entry.
C6_LedgerOnlySuccessful ==
    /\ scraped_urls \subseteq (fetched \cap pageStore)
    /\ LedgerOnDisk \subseteq (fetched \cap pageStore)
    /\ \A t \in Tasks :
          task[t].pc \in {"save_page", "record", "open", "dump", "close",
                          "links"}
              => task[t].content = "ok"
    /\ \A u \in failedRun \ fetched : u \notin scraped_urls

\* a run has returned in which the fetch of b failed and the seed was
\* recorded: b is not in the ledger
C6_Witness ==
    /\ phase = "returned"
    /\ UrlB \in failedRun
    /\ UrlB \notin fetched
    /\ base_url \in scraped_urls
    /\ LedgerOnDisk # {}

\* C7: when scrape() has returned or has propagated an exception, every
\* browser driver created during the run has been quit.
C7_DriversReleased == phase \in {"returned", "failed"} => liveDrivers = 0

\* C8: at most one worker at a time is inside the update-and-rewrite of the
\* ledger.
C8_LedgerMutualExclusion == Cardinality({t \in Tasks : InRecord(t)}) <= 1

\* C9: after a crash the ledger file holds every entry whose
\* save_scraped_urls() call had returned.
C9_CrashKeepsRecorded == phase = "crashed" => durable \subseteq LedgerOnDisk

\* C10: a ledger file that cannot be parsed yields an empty ledger and the
\* constructor does not raise.
C10_UnreadableLedgerIsEmpty ==
    [][ (runs' = runs + 1 /\ fileState = "invalid")
        => phase' = "constructed" /\ scraped_urls' = {} ]_vars


\* the in-scope test of scrape_page: the address begins with the base address
InScope(u) == startswith(u, base_url)

\* the addresses the anchors of page u point to, each href resolved against
\* the address of page u itself
PageLinks(u) == {urljoin(u, Hrefs(u)[i]) : i \in DOMAIN Hrefs(u)}

\* the in-scope pages reachable from the pages of S by following in-scope links
RECURSIVE Reach(_)
Reach(S) ==
    LET more == S \cup {v \in UNION {PageLinks(u) : u \in S} : InScope(v)}
    IN IF more = S THEN S ELSE Reach(more)

ReachableInScope == Reach({base_url})

\* C11: when a run that started from an empty ledger and in which no fetch
\* failed has returned, the ledger keys are exactly the in-scope URLs
\* reachable from the seed.
C11_LedgerIsReachableSet ==
    (phase = "returned" /\ ledgerAtStart = {} /\ failedRun = {})
    => scraped_urls = ReachableInScope

\* the pieces joined with single spaces
RECURSIVE JoinSpace(_)
JoinSpace(ss) ==
    IF ss = <<>> THEN <<>>
    ELSE IF Len(ss) = 1 THEN ss[1]
    ELSE ss[1] \o <<" ">> \o JoinSpace(Tail(ss))

\* the sentences of a chunk
SentencesOf(chunk) == Split(chunk)

\* the in-scope addresses the anchors of page u point to
InScopeLinks(u) == {v \in PageLinks(u) : InScope(v)}

\* C14: the candidates a call returns for a fetched page are in-scope hrefs
\* of that page resolved against the page's own address, and every such href
\* is returned unless it was already visited.
C14_LinksResolvedAgainstPage ==
    \A t \in Tasks :
        (task[t].pc = "done" /\ task[t].content = "ok")
        => /\ Range(task[t].new_urls) \subseteq InScopeLinks(task[t].url)
           /\ InScopeLinks(task[t].url) \subseteq
                  Range(task[t].new_urls) \cup visited_urls

\* C12: every emitted chunk other than the last has at most chunk_size
\* characters, unless it consists of one sentence longer than chunk_size.
C12_ChunkWithinSize ==
    cpc = "done" =>
        \A n \in 1..(Len(rag_data) - 1) :
            \/ Len(rag_data[n].chunk) <= chunk_size
            \/ Len(SentencesOf(rag_data[n].chunk)) = 1

C15_FrontierNoDuplicates ==
    \A i, j \in DOMAIN urls_to_scrape :
        urls_to_scrape[i] = urls_to_scrape[j] => i = j

\* C16: the frontier computed at the end of a round holds no URL whose fetch
\* has failed earlier in the same run.
C16_FailedNotRedispatched ==
    [][ RoundMerges =>
          \A i \in DOMAIN urls_to_scrape' :
              urls_to_scrape'[i] \notin failedRun ]_vars

\* the exception that leaves list(executor.map(...)): the one of the first
\* call, in submission order, that raised
Propagating(t) ==
    /\ task[t].pc = "raised"
    /\ \A j \in 1..(t - 1) : task[j].pc = "done"

\* C17: scrape() is aborted only by a failure to create the browser driver,
\* never by an exception raised after the fetch of a URL succeeded.
C17_OnlyDriverFailureAborts ==
    [][ (phase = "running" /\ phase' = "aborting")
        => \A t \in Tasks : Propagating(t) => task[t].content = "unset" ]_vars

\* C18: at most one browser driver is created in one process lifetime.
C18_AtMostOneDriver == liveDrivers <= 1

\* a call has raised after its fetch returned content (the case of C17)
PostFetchRaise ==
    \E t \in Tasks : task[t].pc = "raised" /\ task[t].content = "ok"

\* C19 as stated: a run of scrape() that is not killed and in which no call
\* raises after its fetch eventually returns.
C19_EventuallyReturns ==
    (phase = "running")
        ~> (phase = "returned" \/ phase = "crashed" \/ PostFetchRaise)

\* the number of rounds a run can take: every in-scope page is in at most two
\* frontiers
RoundLimit == 2 * Cardinality({u \in Urls : InScope(u)})

\* C19 as amended: a run of scrape() that is not killed takes a bounded number
\* of rounds and eventually ends, by returning after a round that left an
\* empty frontier or by propagating the exception of a call.
C19_RunEnds ==
    /\ [](rounds <= RoundLimit)
    /\ [](phase = "returned" => urls_to_scrape = <<>>)
    /\ (phase = "running") ~> (phase \in {"returned", "failed", "crashed"})

\* a second run, begun after the first was killed, has returned after three
\* rounds in which a fetch failed and other pages were recorded
C19_Witness ==
    /\ runs = 2
    /\ prevEnd = "crashed"
    /\ phase = "returned"
    /\ rounds = 3
    /\ failedRun # {}
    /\ Cardinality(scraped_urls) >= 2

\* call t of the current round starts: a pool thread enters scrape_page
CallStarts(t) ==
    /\ task[t].pc = "queued"
    /\ t \in DOMAIN task'
    /\ task'[t].pc \notin {"queued", "cancelled"}

\* C20: the calls of the next round are submitted, and the next frontier is
\* computed, only when every call of the round has returned, and only from
\* the results of those calls; a call that starts belongs to the frontier of
\* the round in progress, and the frontier does not change during a round.
C20_RoundBarrier ==
    [][ /\ RoundMerges =>
            /\ \A t \in Tasks : task[t].pc = "done"
            /\ Range(urls_to_scrape') \subseteq
                   UNION {Range(task[t].new_urls) : t \in Tasks}
            /\ \A t \in DOMAIN task' : task'[t].pc = "queued"
        /\ \A t \in Tasks : CallStarts(t) =>
            /\ task[t].url = urls_to_scrape[t]
            /\ urls_to_scrape' = urls_to_scrape
            /\ rounds' = rounds
        /\ (phase = "running" /\ phase' = "running" /\ ~RoundMerges)
               => urls_to_scrape' = urls_to_scrape ]_vars

\* the third round is in progress: one of its calls has started while the
\* other is still queued, and its frontier came from the second round
C20_Witness ==
    /\ rounds = 2
    /\ Len(urls_to_scrape) = 2
    /\ task[1].pc = "fetch"
    /\ task[2].pc = "queued"
====
